---- MODULE Spec2Model ----
(***************************************************************************)
(* The KTP recognition frontend: App (handleUpload, handleReset and what   *)
(* it renders), ImageUpload (onDrop behind react-dropzone), KTPDisplay     *)
(* (the rows of the result table) and ErrorBoundary.                       *)
(*                                                                         *)
(* JavaScript values are tagged records: undefined, null, a string (a      *)
(* sequence of tokens: one token per character where the characters        *)
(* matter, as in a NIK, one token for a whole text otherwise; the empty    *)
(* sequence is the empty string) and an object (a function from its keys). *)
(***************************************************************************)
EXTENDS Integers, Sequences, FiniteSets, TLC

\* The number of handleUpload calls a behaviour may start.
MaxUploads == 2

----------------------------------------------------------------------------
\* JavaScript values, truthiness, property access, || and ?.

Undefined == [t |-> "undefined"]

Null == [t |-> "null"]

Str(s) == [t |-> "string", s |-> s]

Obj(f) == [t |-> "object", f |-> f]

Text(s) == Str(<<s>>)

EmptyString == Str(<<>>)

\* ToBoolean: undefined, null and "" are falsy, objects and other strings truthy.
Truthy(v) ==
  CASE v.t = "string" -> v.s # <<>>
    [] v.t = "object" -> TRUE
    [] OTHER -> FALSE

\* v[k] on a value that is neither null nor undefined: a property the value
\* does not have (every property of a string that is read here) is undefined.
Get(v, k) == IF v.t = "object" /\ k \in DOMAIN v.f THEN v.f[k] ELSE Undefined

\* v?.[k]
OptGet(v, k) == IF v.t \in {"undefined", "null"} THEN Undefined ELSE Get(v, k)

\* a || b
Or(a, b) == IF Truthy(a) THEN a ELSE b

----------------------------------------------------------------------------
\* ImageUpload.tsx

MAX_FILE_SIZE == 10 * 1024 * 1024

\* The keys of useDropzone's accept option.
AcceptedTypes == {"image/jpeg", "image/png"}

\* The files a user may drop: a File is its type and its size.
FileTypes == {"image/jpeg", "image/png", "application/pdf"}

FileSizes == {MAX_FILE_SIZE, MAX_FILE_SIZE + 1}

Files == [type : FileTypes, size : FileSizes]

\* The errors useDropzone (accept, maxSize) attaches to a dropped file, the
\* type's first; a file with none is accepted.
FileErrors(file) ==
  (IF file.type \in AcceptedTypes
     THEN <<>>
     ELSE << [code |-> "file-invalid-type",
              message |-> Text("File type must be one of the accepted types")] >>)
  \o
  (IF file.size > MAX_FILE_SIZE
     THEN << [code |-> "file-too-large",
              message |-> Text("File is larger than maxSize bytes")] >>
     ELSE <<>>)

\* The two arguments useDropzone passes to onDrop for a drop of one file.
AcceptedFiles(file) == IF FileErrors(file) = <<>> THEN <<file>> ELSE <<>>

RejectedFiles(file) ==
  IF FileErrors(file) = <<>> THEN <<>> ELSE << [file |-> file, errors |-> FileErrors(file)] >>

\* onDrop's own size test of an accepted file; before it, the test with >=.
TooLargeOffByOne(file) == file.size >= MAX_FILE_SIZE

TooLarge(file) == file.size > MAX_FILE_SIZE

\* onDrop: the validationError it leaves and the files it passes to onUpload.
onDrop(acceptedFiles, rejectedFiles) ==
  IF Len(rejectedFiles) > 0
    THEN LET error == rejectedFiles[1].errors[1] IN
         [validationError |->
            IF error.code = "file-too-large"
              THEN Text("File is too large. Maximum size is 10MB.")
              ELSE IF error.code = "file-invalid-type"
                THEN Text("Invalid file type. Only JPG and PNG images are accepted.")
                ELSE error.message,
          onUpload |-> <<>>]
    ELSE IF Len(acceptedFiles) > 0
      THEN LET file == acceptedFiles[1] IN
           IF TooLarge(file)
             THEN [validationError |-> Text("File is too large. Maximum size is 10MB."),
                   onUpload |-> <<>>]
             ELSE [validationError |-> Null, onUpload |-> <<file>>]
      ELSE [validationError |-> Null, onUpload |-> <<>>]

----------------------------------------------------------------------------
\* KTPDisplay and the KTPData type

\* The keys of fieldLabels, in Object.entries order.
FieldOrder ==
  << "nik", "name", "birth_place", "birth_date", "gender", "address",
     "blood_type", "religion", "marital_status", "occupation", "nationality",
     "valid_until" >>

FieldKeys == {FieldOrder[i] : i \in 1..Len(FieldOrder)}

fieldLabels ==
  [nik |-> "NIK", name |-> "Nama", birth_place |-> "Tempat Lahir",
   birth_date |-> "Tanggal Lahir", gender |-> "Jenis Kelamin", address |-> "Alamat",
   blood_type |-> "Golongan Darah", religion |-> "Agama",
   marital_status |-> "Status Perkawinan", occupation |-> "Pekerjaan",
   nationality |-> "Kewarganegaraan", valid_until |-> "Berlaku Hingga"]

\* The test of a field's value that lets its row be rendered (the negation
\* of `if (!value) return null`); before it, the test `value === undefined`.
RowShownIfDefined(value) == value # Undefined

RowShown(value) == Truthy(value)

\* The rows of the <dl>: one (label, value) per key of fieldLabels whose
\* value passes the test, in fieldLabels' order.
KTPDisplayRows(data) ==
  LET entries == [i \in 1..Len(FieldOrder) |->
                    [key |-> FieldOrder[i],
                     label |-> fieldLabels[FieldOrder[i]],
                     value |-> Get(data, FieldOrder[i])]]
  IN SelectSeq(entries, LAMBDA e : RowShown(e.value))

\* type Gender
Gender == {Text("LAKI-LAKI"), Text("PEREMPUAN")}

Digits == {"0", "1", "2", "3", "4", "5", "6", "7", "8", "9"}

\* ^\d{16}$ on a string given character by character.
IsNIK(v) == v.t = "string" /\ Len(v.s) = 16 /\ \A i \in 1..Len(v.s) : v.s[i] \in Digits

----------------------------------------------------------------------------
\* What the server may answer.

ValidNik == Str(<<"3","1","7","3","0","4","2","5","0","4","9","0","0","0","0","1">>)

\* OCR read a letter O for a zero and lost the last digit.
MisreadNik == Str(<<"3","1","7","3","O","4","2","5","0","4","9","0","0","0","0">>)

KTPFull ==
  Obj([nik |-> ValidNik, name |-> Text("JOHN DOE"), birth_place |-> Text("JAKARTA"),
       birth_date |-> Text("25-04-1990"), gender |-> Text("LAKI-LAKI"),
       address |-> Text("JL. KEBON JERUK"), blood_type |-> Text("O"),
       religion |-> Text("ISLAM"), marital_status |-> Text("KAWIN"),
       occupation |-> Text("KARYAWAN SWASTA"), nationality |-> Text("WNI"),
       valid_until |-> Text("SEUMUR HIDUP")])

\* Some optional fields left out; the fields the extractor found no text
\* for come as empty strings or as JSON null.
KTPPartial ==
  Obj([nik |-> ValidNik, name |-> Text("JANE DOE"), birth_place |-> EmptyString,
       birth_date |-> Text("01-01-1991"), gender |-> Text("PEREMPUAN"),
       address |-> Text("JL. MERDEKA"), blood_type |-> EmptyString,
       religion |-> Text("ISLAM"), occupation |-> Null])

KTPMisreadNik == Obj([KTPPartial.f EXCEPT !.nik = MisreadNik])

KTPOtherGender == Obj([KTPPartial.f EXCEPT !.gender = Text("PRIA")])

\* The bodies of a 2xx answer to POST /extract, response.data: an object
\* with the record as ktp_data, whatever the record holds, or no body.
ExtractBodies ==
  { Obj([ktp_data |-> KTPFull]), Obj([ktp_data |-> KTPPartial]),
    Obj([ktp_data |-> KTPMisreadNik]), Obj([ktp_data |-> KTPOtherGender]),
    Null }

\* The rejections of axios.post: an AxiosError with its message and, when the
\* server answered, the response with its body.
AxiosError(message, response) ==
  [isAxiosError |-> TRUE, message |-> Text(message), response |-> response]

HttpError(data) == AxiosError("Request failed with status code 400", Obj([data |-> data]))

AxiosErrors ==
  { AxiosError("Network Error", Undefined),
    HttpError(Obj([error |-> Text("File too large")])),
    HttpError(Obj([detail |-> Obj([error |-> Text("Invalid NIK format")])])),
    HttpError(Obj([detail |-> Text("Invalid file type")])),
    HttpError(Null) }

\* The error a property read of null raises, which is no AxiosError.
TypeError == [isAxiosError |-> FALSE, message |-> Text("Cannot read properties of null"),
              response |-> Undefined]

----------------------------------------------------------------------------
\* The state

VARIABLES
  ktpData,          \* App: useState<KTPData | null>
  loading,          \* App: useState(false)
  error,            \* App: useState<string | null>
  imagePreview,     \* App: useState<string | null>
  validationError,  \* ImageUpload: useState<string | null>
  boundary,         \* ErrorBoundary: this.state, [hasError, error]
  calls,            \* the handleUpload calls: where each is, what it sent (the
                    \* requests counted) and the ktpData it started from
  nextId,           \* the number the next handleUpload call gets
  lastDrop,         \* history: the last drop the mounted ImageUpload handled
  lastFailure,      \* history: what the last call failed with, since an upload began
  lastStore,        \* history: the call that last stored a result or an error
  thrown            \* history: what ErrorBoundary's children threw, and the retries

appVars == <<ktpData, loading, error, imagePreview, calls, nextId, lastFailure, lastStore>>

boundaryVars == <<boundary, thrown>>

vars == <<ktpData, loading, error, imagePreview, validationError, boundary, calls,
          nextId, lastDrop, lastFailure, lastStore, thrown>>

NoFile == [type |-> "", size |-> 0]

NoCall ==
  [pc |-> "none", file |-> NoFile, reader |-> "none", nUpload |-> 0, nExtract |-> 0,
   uploadOk |-> FALSE, failed |-> FALSE, ktpAtStart |-> Null]

NoDrop == [file |-> NoFile, onUpload |-> <<>>]

NoFailure == [isAxiosError |-> FALSE, message |-> EmptyString, response |-> Undefined]

NoStore == [by |-> 0, latest |-> 0]

Init ==
  /\ ktpData = Null
  /\ loading = FALSE
  /\ error = Null
  /\ imagePreview = Null
  /\ validationError = Null
  /\ boundary = [hasError |-> FALSE, error |-> Null]
  /\ calls = [i \in 1..MaxUploads |-> NoCall]
  /\ nextId = 1
  /\ lastDrop = NoDrop
  /\ lastFailure = NoFailure
  /\ lastStore = NoStore
  /\ thrown = [since |-> FALSE, error |-> Null, retried |-> FALSE]

----------------------------------------------------------------------------
\* What App and ErrorBoundary render

\* ErrorBoundary.render returns this.props.children.
ChildrenRendered == ~boundary.hasError

LoadingRendered == ChildrenRendered /\ loading

KTPDisplayRendered == ChildrenRendered /\ ~loading /\ Truthy(ktpData)

ImageUploadRendered == ChildrenRendered /\ ~loading /\ ~Truthy(ktpData)

PreviewRendered == ImageUploadRendered /\ Truthy(imagePreview)

ErrorRendered == ChildrenRendered /\ Truthy(error)

\* The text of ErrorBoundary's fallback UI.
FallbackText == Or(OptGet(boundary.error, "message"), Text("Something went wrong"))

\* What ErrorBoundary.render returns.
BoundaryRender ==
  IF boundary.hasError
    THEN [ui |-> "fallback", title |-> "An error occurred", text |-> FallbackText]
    ELSE [ui |-> "children", title |-> "", text |-> EmptyString]

----------------------------------------------------------------------------
\* App.handleUpload, step by step: the part before the first await, the two
\* awaits, and the FileReader callback.

\* reader.result once the read has ended: the data URL, or null after a read
\* error.
DataURL(file) == Str(<<"data:", file.type, ";base64">>)

ReaderResults(file) == {DataURL(file), Null}

\* The message the catch block hands to setError.
catchMessage(err) ==
  IF err.isAxiosError
    THEN Or(Or(OptGet(OptGet(err.response, "data"), "error"),
               OptGet(OptGet(OptGet(err.response, "data"), "detail"), "error")),
            err.message)
    ELSE Text("Failed to process KTP image. Please try again.")

\* handleUpload up to `await axios.post(.../upload)`, without setLoading(true).
handleUploadStartNotLoading(file) ==
  /\ nextId <= MaxUploads
  /\ error' = Null
  /\ calls' = [calls EXCEPT ![nextId] =
                 [pc |-> "upload", file |-> file, reader |-> "reading", nUpload |-> 1,
                  nExtract |-> 0, uploadOk |-> FALSE, failed |-> FALSE,
                  ktpAtStart |-> ktpData]]
  /\ nextId' = nextId + 1
  /\ lastFailure' = NoFailure
  /\ UNCHANGED <<ktpData, loading, imagePreview, lastStore>>

\* handleUpload up to `await axios.post(.../upload)`: loading, the error
\* cleared, the FileReader started, POST /upload sent.
handleUploadStart(file) ==
  /\ nextId <= MaxUploads
  /\ loading' = TRUE
  /\ error' = Null
  /\ calls' = [calls EXCEPT ![nextId] =
                 [pc |-> "upload", file |-> file, reader |-> "reading", nUpload |-> 1,
                  nExtract |-> 0, uploadOk |-> FALSE, failed |-> FALSE,
                  ktpAtStart |-> ktpData]]
  /\ nextId' = nextId + 1
  /\ lastFailure' = NoFailure
  /\ UNCHANGED <<ktpData, imagePreview, lastStore>>

\* The catch block and the finally block of call i, which caught err.
catchFinally(i, err) ==
  /\ imagePreview' = Null
  /\ error' = catchMessage(err)
  /\ loading' = FALSE
  /\ calls' = [calls EXCEPT ![i].pc = "done", ![i].failed = TRUE]
  /\ lastFailure' = err
  /\ lastStore' = [by |-> i, latest |-> nextId - 1]
  /\ UNCHANGED <<ktpData, nextId>>

\* A catch block that goes on to POST /extract.
UploadRejectsThenExtract(i, err) ==
  /\ calls[i].pc = "upload"
  /\ calls' = [calls EXCEPT ![i].pc = "extract", ![i].nExtract = @ + 1]
  /\ UNCHANGED <<ktpData, loading, error, imagePreview, nextId, lastFailure, lastStore,
                 validationError, lastDrop, boundaryVars>>

\* POST /upload of call i is rejected with err.
UploadRejects(i, err) ==
  /\ calls[i].pc = "upload"
  /\ catchFinally(i, err)
  /\ UNCHANGED <<validationError, lastDrop, boundaryVars>>

\* POST /upload of call i resolves: POST /extract is sent.
UploadResolves(i) ==
  /\ calls[i].pc = "upload"
  /\ calls' = [calls EXCEPT ![i].pc = "extract", ![i].uploadOk = TRUE,
                            ![i].nExtract = @ + 1]
  /\ UNCHANGED <<ktpData, loading, error, imagePreview, nextId, lastFailure, lastStore,
                 validationError, lastDrop, boundaryVars>>

\* POST /extract of call i is rejected with err.
ExtractRejects(i, err) ==
  /\ calls[i].pc = "extract"
  /\ catchFinally(i, err)
  /\ UNCHANGED <<validationError, lastDrop, boundaryVars>>

\* POST /extract of call i resolves with the body data: setKtpData and the
\* finally block, or the TypeError of reading ktp_data of null.
ExtractResolves(i, data) ==
  /\ calls[i].pc = "extract"
  /\ IF data.t \in {"undefined", "null"}
       THEN catchFinally(i, TypeError)
       ELSE /\ ktpData' = Get(data, "ktp_data")
            /\ loading' = FALSE
            /\ calls' = [calls EXCEPT ![i].pc = "done"]
            /\ lastStore' = [by |-> i, latest |-> nextId - 1]
            /\ UNCHANGED <<error, imagePreview, nextId, lastFailure>>
  /\ UNCHANGED <<validationError, lastDrop, boundaryVars>>

\* reader.onloadend of call i, with reader.result.
ReaderLoadEnd(i, result) ==
  /\ calls[i].reader = "reading"
  /\ imagePreview' = result
  /\ calls' = [calls EXCEPT ![i].reader = "done"]
  /\ UNCHANGED <<ktpData, loading, error, nextId, lastFailure, lastStore,
                 validationError, lastDrop, boundaryVars>>

\* App.handleReset, behind KTPDisplay's button.
handleReset ==
  /\ KTPDisplayRendered
  /\ ktpData' = Null
  /\ error' = Null
  /\ imagePreview' = Null
  /\ UNCHANGED <<loading, calls, nextId, lastFailure, lastStore,
                 validationError, lastDrop, boundaryVars>>

\* One file dropped on the rendered ImageUpload: useDropzone sorts it, onDrop
\* runs, and onUpload (App.handleUpload) runs to its first await.
Drop(file) ==
  /\ ImageUploadRendered
  /\ LET r == onDrop(AcceptedFiles(file), RejectedFiles(file)) IN
       /\ validationError' = r.validationError
       /\ lastDrop' = [file |-> file, onUpload |-> r.onUpload]
       /\ IF r.onUpload # <<>>
            THEN handleUploadStart(r.onUpload[1])
            ELSE UNCHANGED appVars
  /\ UNCHANGED boundaryVars

----------------------------------------------------------------------------
\* ErrorBoundary

\* What a child may throw while it renders.
ThrownErrors == {Obj([message |-> Text("Test error")]), Obj([message |-> EmptyString])}

\* getDerivedStateFromError that forgets the error.
getDerivedStateFromErrorNoError(e) == [hasError |-> TRUE, error |-> Null]

getDerivedStateFromError(e) == [hasError |-> TRUE, error |-> e]

\* A rendering child throws e: the boundary takes the derived state and
\* unmounts its children, whose own state (ImageUpload's) is gone with them.
\* App, the boundary's parent, keeps its state.
ChildThrows(e) ==
  /\ ChildrenRendered
  /\ boundary' = getDerivedStateFromError(e)
  /\ thrown' = [thrown EXCEPT !.since = TRUE, !.error = e]
  /\ validationError' = Null
  /\ lastDrop' = NoDrop
  /\ UNCHANGED appVars

\* The onClick of 'Try again'.
TryAgain ==
  /\ boundary.hasError
  /\ boundary' = [hasError |-> FALSE, error |-> Null]
  /\ thrown' = [since |-> FALSE, error |-> Null, retried |-> TRUE]
  /\ UNCHANGED <<appVars, validationError, lastDrop>>

----------------------------------------------------------------------------

Started == 1..(nextId - 1)

Next ==
  \/ \E file \in Files : Drop(file)
  \/ \E i \in Started : UploadResolves(i)
  \/ \E i \in Started, err \in AxiosErrors : UploadRejects(i, err)
  \/ \E i \in Started, data \in ExtractBodies : ExtractResolves(i, data)
  \/ \E i \in Started, err \in AxiosErrors : ExtractRejects(i, err)
  \/ \E i \in Started : \E result \in ReaderResults(calls[i].file) : ReaderLoadEnd(i, result)
  \/ handleReset
  \/ \E e \in ThrownErrors : ChildThrows(e)
  \/ TryAgain

Spec == Init /\ [][Next]_vars

----------------------------------------------------------------------------
\* The claims

InFlight == {i \in Started : calls[i].pc \in {"upload", "extract"}}

\* C1: a dropped file reaches onUpload, once and as the file of the call that
\* starts, exactly when its type is image/jpeg or image/png and its size is
\* at most 10*1024*1024 bytes; otherwise onUpload is not called and
\* validationError holds a message.
C1_UploadIffTypeAndSizeOk ==
  lastDrop # NoDrop =>
    LET file == lastDrop.file
        ok == file.type \in {"image/jpeg", "image/png"} /\ file.size <= 10 * 1024 * 1024
    IN /\ ok => /\ lastDrop.onUpload = <<file>>
                /\ nextId > 1
                /\ calls[nextId - 1].file = file
                /\ calls[nextId - 1].nUpload = 1
       /\ ~ok => /\ lastDrop.onUpload = <<>>
                 /\ validationError.t = "string"
                 /\ validationError.s # <<>>

\* A file of exactly 10MB was dropped and uploaded, and (in another state of
\* the same run) a rejected one left its message.
C1_Witness ==
  /\ lastDrop.file.size = MAX_FILE_SIZE
  /\ lastDrop.onUpload = <<lastDrop.file>>
  /\ calls[nextId - 1].file = lastDrop.file

\* The message an error response carries, in the three places the backend
\* may put it; undefined when it carries none.
CarriedMessage(err) ==
  LET data == OptGet(err.response, "data")
      inError == OptGet(data, "error")
      inDetailError == OptGet(OptGet(data, "detail"), "error")
      inDetail == OptGet(data, "detail")
  IN IF inError.t = "string" THEN inError
     ELSE IF inDetailError.t = "string" THEN inDetailError
     ELSE IF inDetail.t = "string" THEN inDetail
     ELSE Undefined

\* C2: after a request failed with an error response that carries a message
\* (as data.error, data.detail.error or a string data.detail), App's error
\* is that message.
C2_ErrorIsServerMessage ==
  CarriedMessage(lastFailure) # Undefined => error = CarriedMessage(lastFailure)

\* C3: whenever App holds a record (and KTPDisplay shows it), its nik is 16
\* decimal digits.
C3_NikIsSixteenDigits == Truthy(ktpData) => IsNIK(Get(ktpData, "nik"))

\* C4: whenever App holds a record, its gender is 'LAKI-LAKI' or 'PEREMPUAN'.
C4_GenderIsEnum == Truthy(ktpData) => Get(ktpData, "gender") \in Gender

\* C5: the boundary renders the fallback, with the thrown error's message or
\* 'Something went wrong' for an empty one, exactly when a child has thrown
\* since the mount or the last 'Try again'; otherwise its state is hasError
\* false and error null and it renders its children.
C5_FallbackIffChildThrew ==
  /\ thrown.since =>
       BoundaryRender =
         [ui |-> "fallback", title |-> "An error occurred",
          text |-> IF Get(thrown.error, "message") = EmptyString
                     THEN Text("Something went wrong")
                     ELSE Get(thrown.error, "message")]
  /\ ~thrown.since =>
       /\ boundary = [hasError |-> FALSE, error |-> Null]
       /\ BoundaryRender.ui = "children"

\* After a 'Try again' the child threw again, and the fallback shows its message.
C5_Witness ==
  /\ thrown.retried
  /\ thrown.since
  /\ BoundaryRender.ui = "fallback"
  /\ BoundaryRender.text = Text("Test error")

\* The rows among `rows` that carry field k's label.
RowsOf(rows, k) == SelectSeq(rows, LAMBDA r : r.label = fieldLabels[k])

\* The place of key k in fieldLabels.
FieldIndex(k) == CHOOSE m \in 1..Len(FieldOrder) : FieldOrder[m] = k

\* C6, as claimed: each of the 12 fields has its row, with its label and its
\* value, exactly when the record carries the field.
C6_RowIffPresent ==
  KTPDisplayRendered =>
    LET rows == KTPDisplayRows(ktpData) IN
    \A k \in FieldKeys :
      IF Get(ktpData, k) # Undefined
        THEN RowsOf(rows, k) = << [key |-> k, label |-> fieldLabels[k], value |-> Get(ktpData, k)] >>
        ELSE RowsOf(rows, k) = <<>>

\* C6, amended: each of the 12 fields has its row, with its label and its
\* value unchanged, exactly when the record carries the field with a
\* non-empty value (neither null nor the empty string); the rows come in
\* fieldLabels' order.
C6_RowIffNonEmpty ==
  KTPDisplayRendered =>
    LET rows == KTPDisplayRows(ktpData) IN
    /\ \A k \in FieldKeys :
         IF Get(ktpData, k) \notin {Undefined, Null, EmptyString}
           THEN RowsOf(rows, k) = << [key |-> k, label |-> fieldLabels[k], value |-> Get(ktpData, k)] >>
           ELSE RowsOf(rows, k) = <<>>
    /\ \A i \in 1..(Len(rows) - 1) : FieldIndex(rows[i].key) < FieldIndex(rows[i + 1].key)

\* KTPDisplay shows a record with present, empty and absent fields.
C6_Witness ==
  /\ KTPDisplayRendered
  /\ ktpData = KTPPartial
  /\ Len(KTPDisplayRows(ktpData)) = 6

\* C8: from the failure of a call to the next upload, imagePreview is null.
C8_NoPreviewAfterFailure == lastFailure # NoFailure => imagePreview = Null

\* C9: every call sent POST /upload once and POST /extract at most once, and
\* only after /upload succeeded; a call that failed left ktpData as it found
\* it, which is null; a record held comes from a call whose /extract
\* succeeded.
C9_NoRetryStrictOrder ==
  /\ \A i \in Started :
       /\ calls[i].nUpload = 1
       /\ calls[i].nExtract <= 1
       /\ calls[i].nExtract = 1 => calls[i].uploadOk
       /\ calls[i].pc = "extract" => calls[i].nExtract = 1
       /\ calls[i].pc = "upload" => calls[i].nExtract = 0
       /\ calls[i].ktpAtStart = Null
  /\ (nextId > 1 /\ calls[nextId - 1].failed) =>
       /\ ktpData = calls[nextId - 1].ktpAtStart
       /\ ktpData = Null
  /\ ktpData # Null =>
       /\ lastStore.by \in Started
       /\ calls[lastStore.by].pc = "done"
       /\ ~calls[lastStore.by].failed
       /\ calls[lastStore.by].uploadOk
       /\ calls[lastStore.by].nExtract = 1

\* One call stored a record, and after the reset another failed at /upload
\* without sending /extract.
C9_Witness ==
  /\ nextId = 3
  /\ calls[1].pc = "done" /\ ~calls[1].failed /\ calls[1].nExtract = 1
  /\ calls[2].failed /\ ~calls[2].uploadOk /\ calls[2].nExtract = 0
  /\ ktpData = Null

\* C10: at most one call is in flight, the most recently started; while it
\* is, App is loading and renders neither the upload form nor KTPDisplay's
\* reset button; and whatever result or error was last stored was stored by
\* the most recently started call.
C10_OneUploadInFlight ==
  /\ Cardinality(InFlight) <= 1
  /\ InFlight # {} =>
       /\ InFlight = {nextId - 1}
       /\ loading
       /\ ~ImageUploadRendered
       /\ ~KTPDisplayRendered
       /\ ~ENABLED handleReset
  /\ InFlight = {} => ~loading
  /\ lastStore.by = lastStore.latest

\* A second upload is in flight after the first one ended.
C10_Witness ==
  /\ nextId = 3
  /\ InFlight = {2}
  /\ calls[1].pc = "done"
  /\ lastStore.by = 1

====
